---- MODULE Spec2Model ----
(***************************************************************************)
(* Pricing / profit calculation engine of the auction tool.                *)
(*                                                                         *)
(*   src/calculator.py         fee-driven ProfitCalculator                 *)
(*   src/profit_calculator.py  simple-cap ProfitCalculator (prefix pc_)    *)
(*   src/config.py             Config (fee settings)                       *)
(*   src/database.py           Database (the products table)               *)
(*                                                                         *)
(* Python numbers are modelled as exact rationals in lowest terms; a       *)
(* Python value is a record [k, n, d] with k = "num" (the rational n/d),   *)
(* k = "None" (the value None) or k = "raise" (an exception in flight).    *)
(***************************************************************************)
EXTENDS Integers, Sequences, FiniteSets, TLC

VARIABLES config, op, args, ret, memo, calls, db, run

vars == <<config, op, args, ret, memo, calls, db, run>>

(***************************************************************************)
(* Bounds of the model.                                                    *)
(***************************************************************************)
\* observations are None or 50*k for k in -1..MaxObs
MaxObs == 4
\* representative prices are None or 50*k for k in -1..MaxPrice
MaxPrice == 3
\* current bids are 25*k for k in 0..MaxBid
MaxBid == 4
\* values given to Config.set are k/2 for k in -2..MaxHalves
MaxHalves == 1
\* stored numbers are 100*k for k in 0..MaxStored
MaxStored == 1
\* at most MaxFilled cells of the products table are filled by upserts
MaxFilled == 2
\* max_bid_percent attributes are 50*k for k in -1..MaxPercent
MaxPercent == 3
\* number of settings that differ from the defaults at any time
MaxChanged == 2

(***************************************************************************)
(* Exact rational arithmetic.                                              *)
(***************************************************************************)
Abs(x) == IF x < 0 THEN -x ELSE x

RECURSIVE GCD(_, _)
GCD(a, b) == IF b = 0 THEN a ELSE GCD(b, a % b)

\* the rational n/d (d # 0) in lowest terms with a positive denominator
Num(n, d) ==
    LET g == GCD(Abs(n), Abs(d))
        s == IF d < 0 THEN -1 ELSE 1
    IN  [k |-> "num", n |-> (s * n) \div g, d |-> (s * d) \div g]

None == [k |-> "None", n |-> 0, d |-> 1]

Raise == [k |-> "raise", n |-> 0, d |-> 1]

IsNum(x) == x.k = "num"

\* Python arithmetic: a TypeError when an operand is None, a
\* ZeroDivisionError when dividing by zero; an exception propagates.
py_add(a, b) ==
    IF IsNum(a) /\ IsNum(b) THEN Num(a.n * b.d + b.n * a.d, a.d * b.d) ELSE Raise

py_sub(a, b) ==
    IF IsNum(a) /\ IsNum(b) THEN Num(a.n * b.d - b.n * a.d, a.d * b.d) ELSE Raise

py_mul(a, b) ==
    IF IsNum(a) /\ IsNum(b) THEN Num(a.n * b.n, a.d * b.d) ELSE Raise

py_div(a, b) ==
    IF IsNum(a) /\ IsNum(b) /\ b.n # 0 THEN Num(a.n * b.d, a.d * b.n) ELSE Raise

\* a < b and a <= b on numbers
py_lt(a, b) == a.n * b.d < b.n * a.d

py_le(a, b) == a.n * b.d <= b.n * a.d

\* truth value of a Python value: None and 0 are falsy
py_truthy(x) == IsNum(x) /\ x.n # 0

\* sum(prices) of a list, starting from the integer 0
RECURSIVE py_sum(_)
py_sum(prices) ==
    IF prices = <<>> THEN Num(0, 1)
    ELSE py_add(py_sum(SubSeq(prices, 1, Len(prices) - 1)), prices[Len(prices)])

\* try: ... except Exception: return None
try_except_None(r) == IF r.k = "raise" THEN None ELSE r

(***************************************************************************)
(* src/config.py                                                           *)
(***************************************************************************)
SettingKeys ==
    {"texas_sales_tax", "auction_buyer_premium", "ship_to_me_cost",
     "ebay_seller_fee", "ebay_listing_fee", "promote_listing_fee",
     "lowest_profit_margin"}

\* variant: a sales tax default of 6.25%
Config_init_other_tax ==
    [settings |->
        [texas_sales_tax       |-> Num(625, 10000),
         auction_buyer_premium |-> Num(15, 100),
         ship_to_me_cost       |-> Num(0, 1),
         ebay_seller_fee       |-> Num(40, 100),
         ebay_listing_fee      |-> Num(13, 100),
         promote_listing_fee   |-> Num(2, 100),
         lowest_profit_margin  |-> Num(35, 100)]]

\* Config.__init__: the default settings
Config_init ==
    [settings |->
        [texas_sales_tax       |-> Num(825, 10000),
         auction_buyer_premium |-> Num(15, 100),
         ship_to_me_cost       |-> Num(0, 1),
         ebay_seller_fee       |-> Num(40, 100),
         ebay_listing_fee      |-> Num(13, 100),
         promote_listing_fee   |-> Num(2, 100),
         lowest_profit_margin  |-> Num(35, 100)]]

\* variant: a key that is not there reads as 0
Config_get_zero_default(self, key) ==
    IF key \in DOMAIN self.settings THEN self.settings[key] ELSE Num(0, 1)

\* Config.get: dict.get, None for a key that is not there
Config_get(self, key) ==
    IF key \in DOMAIN self.settings THEN self.settings[key] ELSE None

\* variant: the key is written whether or not it is a setting
Config_set_any_key(self, key, value) ==
    <<[settings |-> [k \in (DOMAIN self.settings) \cup {key} |->
                        IF k = key THEN value ELSE self.settings[k]]], TRUE>>

\* Config.set: only a key that is already a setting is written; the result
\* is the pair <<self after the call, returned bool>>
Config_set(self, key, value) ==
    IF key \in DOMAIN self.settings
    THEN <<[self EXCEPT !.settings[key] = value], TRUE>>
    ELSE <<self, FALSE>>

(***************************************************************************)
(* src/calculator.py                                                       *)
(***************************************************************************)
IsNotNone(x) == x.k # "None"

\* variant: an empty list of prices averages to 0
calculate_grand_average_price_zero_default(ebay_avg_sold, ebay_avg_listed, amazon_price) ==
    LET prices == SelectSeq(<<ebay_avg_sold, ebay_avg_listed, amazon_price>>, IsNotNone)
    IN  IF prices = <<>> THEN Num(0, 1)
        ELSE py_div(py_sum(prices), Num(Len(prices), 1))

\* variant: the observations are filtered by truth value
calculate_grand_average_price_truthy(ebay_avg_sold, ebay_avg_listed, amazon_price) ==
    LET prices == SelectSeq(<<ebay_avg_sold, ebay_avg_listed, amazon_price>>, py_truthy)
    IN  IF prices = <<>> THEN None
        ELSE py_div(py_sum(prices), Num(Len(prices), 1))

\* variant: a negative observation is discarded
calculate_grand_average_price_positive_only(ebay_avg_sold, ebay_avg_listed, amazon_price) ==
    LET prices == SelectSeq(<<ebay_avg_sold, ebay_avg_listed, amazon_price>>,
                            LAMBDA x : IsNotNone(x) /\ x.n >= 0)
    IN  IF prices = <<>> THEN None
        ELSE py_div(py_sum(prices), Num(Len(prices), 1))

calculate_grand_average_price(ebay_avg_sold, ebay_avg_listed, amazon_price) ==
    LET prices == SelectSeq(<<ebay_avg_sold, ebay_avg_listed, amazon_price>>, IsNotNone)
    IN  IF prices = <<>> THEN None
        ELSE py_div(py_sum(prices), Num(Len(prices), 1))

\* variant: the ship-to-me cost is not subtracted
calculate_recommended_highest_bid_no_ship(grand_average_price, cfg) ==
    IF grand_average_price.k = "None" THEN None
    ELSE
        LET ebay_listing_fee     == Config_get(cfg, "ebay_listing_fee")
            promote_listing_fee  == Config_get(cfg, "promote_listing_fee")
            lowest_profit_margin == Config_get(cfg, "lowest_profit_margin")
            ebay_seller_fee      == Config_get(cfg, "ebay_seller_fee")
            ship_to_me_cost      == Config_get(cfg, "ship_to_me_cost")
            buyer_premium        == Config_get(cfg, "auction_buyer_premium")
            sales_tax            == Config_get(cfg, "texas_sales_tax")
            price_multiplier ==
                py_sub(py_sub(py_sub(Num(1, 1), ebay_listing_fee), promote_listing_fee),
                       lowest_profit_margin)
            numerator ==
                py_sub(py_mul(grand_average_price, price_multiplier), ebay_seller_fee)
            denominator == py_add(py_add(Num(1, 1), buyer_premium), sales_tax)
        IN  try_except_None(
                IF price_multiplier.k = "raise" \/ numerator.k = "raise"
                   \/ denominator.k = "raise" THEN Raise
                ELSE IF denominator = Num(0, 1) THEN None
                ELSE py_div(numerator, denominator))

\* variant: the sales tax is left out of the denominator
calculate_recommended_highest_bid_no_tax(grand_average_price, cfg) ==
    IF grand_average_price.k = "None" THEN None
    ELSE
        LET ebay_listing_fee     == Config_get(cfg, "ebay_listing_fee")
            promote_listing_fee  == Config_get(cfg, "promote_listing_fee")
            lowest_profit_margin == Config_get(cfg, "lowest_profit_margin")
            ebay_seller_fee      == Config_get(cfg, "ebay_seller_fee")
            ship_to_me_cost      == Config_get(cfg, "ship_to_me_cost")
            buyer_premium        == Config_get(cfg, "auction_buyer_premium")
            sales_tax            == Config_get(cfg, "texas_sales_tax")
            price_multiplier ==
                py_sub(py_sub(py_sub(Num(1, 1), ebay_listing_fee), promote_listing_fee),
                       lowest_profit_margin)
            numerator ==
                py_sub(py_sub(py_mul(grand_average_price, price_multiplier),
                              ebay_seller_fee), ship_to_me_cost)
            denominator == py_add(Num(1, 1), buyer_premium)
        IN  try_except_None(
                IF price_multiplier.k = "raise" \/ numerator.k = "raise"
                   \/ denominator.k = "raise" THEN Raise
                ELSE IF denominator = Num(0, 1) THEN None
                ELSE py_div(numerator, denominator))

\* variant: the division is neither guarded nor inside the try block
calculate_recommended_highest_bid_unguarded(grand_average_price, cfg) ==
    IF grand_average_price.k = "None" THEN None
    ELSE
        LET ebay_listing_fee     == Config_get(cfg, "ebay_listing_fee")
            promote_listing_fee  == Config_get(cfg, "promote_listing_fee")
            lowest_profit_margin == Config_get(cfg, "lowest_profit_margin")
            ebay_seller_fee      == Config_get(cfg, "ebay_seller_fee")
            ship_to_me_cost      == Config_get(cfg, "ship_to_me_cost")
            buyer_premium        == Config_get(cfg, "auction_buyer_premium")
            sales_tax            == Config_get(cfg, "texas_sales_tax")
            price_multiplier ==
                py_sub(py_sub(py_sub(Num(1, 1), ebay_listing_fee), promote_listing_fee),
                       lowest_profit_margin)
            numerator ==
                py_sub(py_sub(py_mul(grand_average_price, price_multiplier),
                              ebay_seller_fee), ship_to_me_cost)
            denominator == py_add(py_add(Num(1, 1), buyer_premium), sales_tax)
        IN  IF price_multiplier.k = "raise" \/ numerator.k = "raise"
               \/ denominator.k = "raise" THEN None
            ELSE py_div(numerator, denominator)

\* variant: a missing price is taken as 0
calculate_recommended_highest_bid_none_as_zero(grand_average_price, cfg) ==
    LET gap == IF grand_average_price.k = "None" THEN Num(0, 1) ELSE grand_average_price
    IN
        LET ebay_listing_fee     == Config_get(cfg, "ebay_listing_fee")
            promote_listing_fee  == Config_get(cfg, "promote_listing_fee")
            lowest_profit_margin == Config_get(cfg, "lowest_profit_margin")
            ebay_seller_fee      == Config_get(cfg, "ebay_seller_fee")
            ship_to_me_cost      == Config_get(cfg, "ship_to_me_cost")
            buyer_premium        == Config_get(cfg, "auction_buyer_premium")
            sales_tax            == Config_get(cfg, "texas_sales_tax")
            price_multiplier ==
                py_sub(py_sub(py_sub(Num(1, 1), ebay_listing_fee), promote_listing_fee),
                       lowest_profit_margin)
            numerator ==
                py_sub(py_sub(py_mul(gap, price_multiplier),
                              ebay_seller_fee), ship_to_me_cost)
            denominator == py_add(py_add(Num(1, 1), buyer_premium), sales_tax)
        IN  try_except_None(
                IF price_multiplier.k = "raise" \/ numerator.k = "raise"
                   \/ denominator.k = "raise" THEN Raise
                ELSE IF denominator = Num(0, 1) THEN None
                ELSE py_div(numerator, denominator))

calculate_recommended_highest_bid(grand_average_price, cfg) ==
    IF grand_average_price.k = "None" THEN None
    ELSE
        LET ebay_listing_fee     == Config_get(cfg, "ebay_listing_fee")
            promote_listing_fee  == Config_get(cfg, "promote_listing_fee")
            lowest_profit_margin == Config_get(cfg, "lowest_profit_margin")
            ebay_seller_fee      == Config_get(cfg, "ebay_seller_fee")
            ship_to_me_cost      == Config_get(cfg, "ship_to_me_cost")
            buyer_premium        == Config_get(cfg, "auction_buyer_premium")
            sales_tax            == Config_get(cfg, "texas_sales_tax")
            price_multiplier ==
                py_sub(py_sub(py_sub(Num(1, 1), ebay_listing_fee), promote_listing_fee),
                       lowest_profit_margin)
            numerator ==
                py_sub(py_sub(py_mul(grand_average_price, price_multiplier),
                              ebay_seller_fee), ship_to_me_cost)
            denominator == py_add(py_add(Num(1, 1), buyer_premium), sales_tax)
        IN  try_except_None(
                IF price_multiplier.k = "raise" \/ numerator.k = "raise"
                   \/ denominator.k = "raise" THEN Raise
                ELSE IF denominator = Num(0, 1) THEN None
                ELSE py_div(numerator, denominator))

\* variant: the sales tax is left out of the total cost
calculate_current_profit_margin_no_tax(current_bid, grand_average_price, cfg) ==
    IF grand_average_price.k = "None" \/ grand_average_price = Num(0, 1) THEN None
    ELSE
        LET ebay_listing_fee    == Config_get(cfg, "ebay_listing_fee")
            promote_listing_fee == Config_get(cfg, "promote_listing_fee")
            ebay_seller_fee     == Config_get(cfg, "ebay_seller_fee")
            buyer_premium       == Config_get(cfg, "auction_buyer_premium")
            sales_tax           == Config_get(cfg, "texas_sales_tax")
            ship_to_me_cost     == Config_get(cfg, "ship_to_me_cost")
            total_cost ==
                py_add(py_mul(current_bid,
                              py_add(Num(1, 1), buyer_premium)),
                       ship_to_me_cost)
            revenue_multiplier ==
                py_sub(py_sub(Num(1, 1), ebay_listing_fee), promote_listing_fee)
            potential_revenue ==
                py_sub(py_mul(grand_average_price, revenue_multiplier), ebay_seller_fee)
            profit == py_sub(potential_revenue, total_cost)
            margin == py_mul(py_div(profit, grand_average_price), Num(100, 1))
        IN  try_except_None(margin)

\* variant: the flat seller fee is not taken off the revenue
calculate_current_profit_margin_no_seller_fee(current_bid, grand_average_price, cfg) ==
    IF grand_average_price.k = "None" \/ grand_average_price = Num(0, 1) THEN None
    ELSE
        LET ebay_listing_fee    == Config_get(cfg, "ebay_listing_fee")
            promote_listing_fee == Config_get(cfg, "promote_listing_fee")
            ebay_seller_fee     == Config_get(cfg, "ebay_seller_fee")
            buyer_premium       == Config_get(cfg, "auction_buyer_premium")
            sales_tax           == Config_get(cfg, "texas_sales_tax")
            ship_to_me_cost     == Config_get(cfg, "ship_to_me_cost")
            total_cost ==
                py_add(py_mul(current_bid,
                              py_add(py_add(Num(1, 1), buyer_premium), sales_tax)),
                       ship_to_me_cost)
            revenue_multiplier ==
                py_sub(py_sub(Num(1, 1), ebay_listing_fee), promote_listing_fee)
            potential_revenue ==
                py_mul(grand_average_price, revenue_multiplier)
            profit == py_sub(potential_revenue, total_cost)
            margin == py_mul(py_div(profit, grand_average_price), Num(100, 1))
        IN  try_except_None(margin)

\* variant: the bid itself is left out of the total cost, only premium and tax on it count
calculate_current_profit_margin_rate_only(current_bid, grand_average_price, cfg) ==
    IF grand_average_price.k = "None" \/ grand_average_price = Num(0, 1) THEN None
    ELSE
        LET ebay_listing_fee    == Config_get(cfg, "ebay_listing_fee")
            promote_listing_fee == Config_get(cfg, "promote_listing_fee")
            ebay_seller_fee     == Config_get(cfg, "ebay_seller_fee")
            buyer_premium       == Config_get(cfg, "auction_buyer_premium")
            sales_tax           == Config_get(cfg, "texas_sales_tax")
            ship_to_me_cost     == Config_get(cfg, "ship_to_me_cost")
            total_cost ==
                py_add(py_mul(current_bid,
                              py_add(buyer_premium, sales_tax)),
                       ship_to_me_cost)
            revenue_multiplier ==
                py_sub(py_sub(Num(1, 1), ebay_listing_fee), promote_listing_fee)
            potential_revenue ==
                py_sub(py_mul(grand_average_price, revenue_multiplier), ebay_seller_fee)
            profit == py_sub(potential_revenue, total_cost)
            margin == py_mul(py_div(profit, grand_average_price), Num(100, 1))
        IN  try_except_None(margin)

calculate_current_profit_margin(current_bid, grand_average_price, cfg) ==
    IF grand_average_price.k = "None" \/ grand_average_price = Num(0, 1) THEN None
    ELSE
        LET ebay_listing_fee    == Config_get(cfg, "ebay_listing_fee")
            promote_listing_fee == Config_get(cfg, "promote_listing_fee")
            ebay_seller_fee     == Config_get(cfg, "ebay_seller_fee")
            buyer_premium       == Config_get(cfg, "auction_buyer_premium")
            sales_tax           == Config_get(cfg, "texas_sales_tax")
            ship_to_me_cost     == Config_get(cfg, "ship_to_me_cost")
            total_cost ==
                py_add(py_mul(current_bid,
                              py_add(py_add(Num(1, 1), buyer_premium), sales_tax)),
                       ship_to_me_cost)
            revenue_multiplier ==
                py_sub(py_sub(Num(1, 1), ebay_listing_fee), promote_listing_fee)
            potential_revenue ==
                py_sub(py_mul(grand_average_price, revenue_multiplier), ebay_seller_fee)
            profit == py_sub(potential_revenue, total_cost)
            margin == py_mul(py_div(profit, grand_average_price), Num(100, 1))
        IN  try_except_None(margin)

(***************************************************************************)
(* src/profit_calculator.py                                                *)
(***************************************************************************)
\* variant: "elif" for the listed average, which is then skipped whenever
\* the sold average is there
pc_calculate_grand_average_price_elif(ebay_avg_sold, ebay_avg_listed, amazon_price) ==
    LET first  == IF py_truthy(ebay_avg_sold) THEN <<ebay_avg_sold>>
                  ELSE IF py_truthy(ebay_avg_listed) THEN <<ebay_avg_listed>>
                  ELSE <<>>
        prices == first \o SelectSeq(<<amazon_price>>, py_truthy)
    IN  try_except_None(
            IF prices = <<>> THEN None
            ELSE py_div(py_sum(prices), Num(Len(prices), 1)))

\* variant: the sum is divided by the number of sources, 3
pc_calculate_grand_average_price_fixed_divisor(ebay_avg_sold, ebay_avg_listed, amazon_price) ==
    LET prices == SelectSeq(<<ebay_avg_sold, ebay_avg_listed, amazon_price>>, py_truthy)
    IN  try_except_None(
            IF prices = <<>> THEN None
            ELSE py_div(py_sum(prices), Num(3, 1)))

pc_calculate_grand_average_price(ebay_avg_sold, ebay_avg_listed, amazon_price) ==
    LET prices == SelectSeq(<<ebay_avg_sold, ebay_avg_listed, amazon_price>>, py_truthy)
    IN  try_except_None(
            IF prices = <<>> THEN None
            ELSE py_div(py_sum(prices), Num(Len(prices), 1)))

\* config.max_bid_percent: an AttributeError when the object has no such
\* attribute (class Config defines none)
py_getattr_max_bid_percent(cfg) ==
    IF "max_bid_percent" \in DOMAIN cfg THEN cfg.max_bid_percent ELSE Raise

\* min(a, b): b only when b < a
py_min(a, b) ==
    IF IsNum(a) /\ IsNum(b) THEN (IF py_lt(b, a) THEN b ELSE a) ELSE Raise

\* variant: the percentage of the price is returned without the cap
pc_calculate_recommended_highest_bid_uncapped(grand_average_price, cfg) ==
    IF ~py_truthy(grand_average_price) THEN None
    ELSE
        LET max_bid ==
                py_mul(grand_average_price,
                       py_div(py_getattr_max_bid_percent(cfg), Num(100, 1)))
        IN  try_except_None(max_bid)

\* variant: max_bid_percent is taken as a fraction, not divided by 100
pc_calculate_recommended_highest_bid_fraction(grand_average_price, cfg) ==
    IF ~py_truthy(grand_average_price) THEN None
    ELSE
        LET max_bid ==
                py_mul(grand_average_price,
                       py_getattr_max_bid_percent(cfg))
        IN  try_except_None(py_min(max_bid, grand_average_price))

pc_calculate_recommended_highest_bid(grand_average_price, cfg) ==
    IF ~py_truthy(grand_average_price) THEN None
    ELSE
        LET max_bid ==
                py_mul(grand_average_price,
                       py_div(py_getattr_max_bid_percent(cfg), Num(100, 1)))
        IN  try_except_None(py_min(max_bid, grand_average_price))

\* variant: a missing or zero price gives a margin of 0
pc_calculate_current_profit_margin_zero_default(current_bid, grand_average_price, cfg) ==
    IF ~py_truthy(grand_average_price) THEN Num(0, 1)
    ELSE
        LET potential_profit == py_sub(grand_average_price, current_bid)
            profit_margin ==
                py_mul(py_div(potential_profit, grand_average_price), Num(100, 1))
        IN  try_except_None(profit_margin)

\* variant: the buyer premium is added to the bid
pc_calculate_current_profit_margin_with_premium(current_bid, grand_average_price, cfg) ==
    IF ~py_truthy(grand_average_price) THEN None
    ELSE
        LET potential_profit == py_sub(grand_average_price,
                       py_mul(current_bid,
                              py_add(Num(1, 1), Config_get(cfg, "auction_buyer_premium"))))
            profit_margin ==
                py_mul(py_div(potential_profit, grand_average_price), Num(100, 1))
        IN  try_except_None(profit_margin)

pc_calculate_current_profit_margin(current_bid, grand_average_price, cfg) ==
    IF ~py_truthy(grand_average_price) THEN None
    ELSE
        LET potential_profit == py_sub(grand_average_price, current_bid)
            profit_margin ==
                py_mul(py_div(potential_profit, grand_average_price), Num(100, 1))
        IN  try_except_None(profit_margin)

(***************************************************************************)
(* Inputs.                                                                 *)
(***************************************************************************)
ObsVals == {None} \cup {Num(50 * k, 1) : k \in -1..MaxObs}

PriceVals == {None} \cup {Num(50 * k, 1) : k \in -1..MaxPrice}

BidVals == {Num(25 * k, 1) : k \in 0..MaxBid}

\* values the command line hands to Config.set: int(value) or float(value)
SetVals == {Num(k, 2) : k \in -2..MaxHalves}

\* keys the command line hands to Config.set: the settings and one other
SetKeys == SettingKeys \cup {"max_bid_percent"}

\* the object has no max_bid_percent attribute
Missing == [k |-> "missing", n |-> 0, d |-> 1]

PercentVals == {Missing} \cup {Num(50 * k, 1) : k \in -1..MaxPercent}

\* the configuration object handed to the simple-cap calculator: the Config
\* object, carrying a max_bid_percent attribute or not
WithPercent(cfg, mbp) ==
    IF mbp = Missing THEN cfg
    ELSE [settings |-> cfg.settings, max_bid_percent |-> mbp]

py_bool(b) == [k |-> "bool", n |-> IF b THEN 1 ELSE 0, d |-> 1]

NoArgs ==
    [obs |-> <<None, None, None>>, price |-> None, bid |-> None, mbp |-> Missing,
     key |-> "", value |-> None, fed |-> FALSE]

ChangedKeys(cfg) == {key \in SettingKeys : cfg.settings[key] # Config_init.settings[key]}

(***************************************************************************)
(* State machine.  op is the call in progress ("idle" between calls), args *)
(* its arguments and ret the value it returned.  The engine is synchronous:*)
(* a call starts when the previous one has returned.  memo is one earlier  *)
(* call the caller has kept: its name, its arguments and its result.       *)
(***************************************************************************)
(***************************************************************************)
(* src/database.py: the products table and the connection.                 *)
(* A dict that carries a UPC is a record [upc, items], items being the     *)
(* function from its other keys to their values.                           *)
(***************************************************************************)
UPCs == {"u1", "u2"}

\* a stored value that is not a number
Text == [k |-> "str", n |-> 0, d |-> 1]

\* what is put in a REAL column
DbVals == {None, Text} \cup {Num(100 * k, 1) : k \in 0..MaxStored}

\* what is put in a column: name and category are TEXT columns, and of the
\* REAL columns ebay_average_sold is the one that is given a text as well
ValuesOf(key) ==
    IF key \in {"name", "category"} THEN {None, Text}
    ELSE IF key = "ebay_average_sold" THEN DbVals
    ELSE DbVals \ {Text}

\* add_or_update_product: the keys that are product data
product_fields ==
    {"upc", "name", "brand", "model", "condition", "functionality",
     "damage", "missing_items", "damage_desc", "missing_items_desc", "notes",
     "ebay_lowest_sold", "ebay_average_sold", "ebay_highest_sold",
     "ebay_average_listed", "ebay_average_shipping", "ebay_active_count",
     "amazon_price", "amazon_star_rating", "amazon_reviews_count",
     "amazon_frequently_returned", "grand_average_price",
     "recommended_highest_bid", "current_profit_margin"}

\* the columns of the products table that are followed; category is a column
\* that is not product data
Columns ==
    {"name", "ebay_average_sold", "ebay_average_listed", "amazon_price",
     "grand_average_price", "recommended_highest_bid", "category"}

\* a row whose columns are all NULL
NewRow == [c \in Columns |-> None]

\* a Database whose connection is open on a file whose tables exist
Database_open == [conn |-> "open", products |-> [u \in {} |-> NewRow]]

\* Database.close
Database_close(self) == [self EXCEPT !.conn = "closed"]

\* variant: the row of an existing UPC is replaced, not updated
add_or_update_product_replaces_row(self, product_data) ==
    LET upc      == product_data.upc
        filtered == {k \in DOMAIN product_data.items :
                        k \in product_fields /\ product_data.items[k] # None}
        row      == [c \in Columns |->
                        IF c \in filtered THEN product_data.items[c] ELSE None]
    IN  IF self.conn = "closed" THEN <<self, FALSE>>
        ELSE <<[self EXCEPT !.products =
                    [u \in (DOMAIN self.products) \cup {upc} |->
                        IF u = upc THEN row ELSE self.products[u]]], TRUE>>

\* variant: a key passed as None is written as NULL
add_or_update_product_writes_null(self, product_data) ==
    LET upc      == product_data.upc
        filtered == {k \in DOMAIN product_data.items : k \in product_fields}
        exists   == upc \in DOMAIN self.products
        old      == IF exists THEN self.products[upc] ELSE NewRow
        row      == [c \in Columns |->
                        IF c \in filtered THEN product_data.items[c] ELSE old[c]]
    IN  IF self.conn = "closed" THEN <<self, FALSE>>
        ELSE <<[self EXCEPT !.products =
                    [u \in (DOMAIN self.products) \cup {upc} |->
                        IF u = upc THEN row ELSE self.products[u]]], TRUE>>

\* Database.add_or_update_product: UPDATE of the row of the UPC, or INSERT of
\* a new row, with the keys that are product data and are not None; False on
\* sqlite3.Error (a closed connection raises sqlite3.ProgrammingError)
add_or_update_product(self, product_data) ==
    LET upc      == product_data.upc
        filtered == {k \in DOMAIN product_data.items :
                        k \in product_fields /\ product_data.items[k] # None}
        exists   == upc \in DOMAIN self.products
        old      == IF exists THEN self.products[upc] ELSE NewRow
        row      == [c \in Columns |->
                        IF c \in filtered THEN product_data.items[c] ELSE old[c]]
    IN  IF self.conn = "closed" THEN <<self, FALSE>>
        ELSE <<[self EXCEPT !.products =
                    [u \in (DOMAIN self.products) \cup {upc} |->
                        IF u = upc THEN row ELSE self.products[u]]], TRUE>>

\* Database.get_product_by_upc: the row as a dict, the empty set standing for
\* None (no such row, or sqlite3.Error)
get_product_by_upc(self, upc) ==
    IF self.conn = "open" /\ upc \in DOMAIN self.products
    THEN {[upc |-> upc, items |-> self.products[upc]]}
    ELSE {}

\* Database.get_all_products: every row as a dict
get_all_products(self) ==
    IF self.conn = "open"
    THEN {[upc |-> u, items |-> self.products[u]] : u \in DOMAIN self.products}
    ELSE {}

\* the orders in which a set of rows may be listed
Orders(S) ==
    {s \in [1..Cardinality(S) -> S] : \A i, j \in DOMAIN s : i # j => s[i] # s[j]}

\* the columns _calculate_product writes
Derived == {"grand_average_price", "recommended_highest_bid"}

\* the number of non-null cells of the other columns of the products table
Filled(self) ==
    Cardinality({uc \in (DOMAIN self.products) \X (Columns \ Derived) :
                    self.products[uc[1]][uc[2]] # None})

(***************************************************************************)
(* src/calculator.py: the per-product pipeline.                            *)
(* The result is the Database after the call, the two computed values,     *)
(* whether the except clause ran, and whether an exception leaves the call.*)
(***************************************************************************)
\* f"{value:.2f}" raises TypeError for None
py_format_2f(value) == IF IsNum(value) THEN None ELSE Raise

\* variant: no try/except around the body
_calculate_product_no_except(self, cfg, product) ==
    LET grand_avg ==
            calculate_grand_average_price(product.items["ebay_average_sold"],
                                          product.items["ebay_average_listed"],
                                          product.items["amazon_price"])
        recommended_bid ==
            IF grand_avg = Raise THEN Raise
            ELSE calculate_recommended_highest_bid(grand_avg, cfg)
        update_data ==
            [upc |-> product.upc,
             items |-> [grand_average_price |-> grand_avg,
                        recommended_highest_bid |-> recommended_bid]]
        failed ==
            \/ py_format_2f(grand_avg) = Raise
            \/ py_format_2f(recommended_bid) = Raise
    IN  IF grand_avg = Raise
        THEN [db |-> self, grand_avg |-> Raise, recommended_bid |-> Raise,
              error |-> FALSE, raised |-> TRUE]
        ELSE [db |-> add_or_update_product(self, update_data)[1],
              grand_avg |-> grand_avg, recommended_bid |-> recommended_bid,
              error |-> FALSE, raised |-> failed]

\* variant: an absent value is stored as 0
_calculate_product_zero_for_absent(self, cfg, product) ==
    LET grand_avg ==
            calculate_grand_average_price(product.items["ebay_average_sold"],
                                          product.items["ebay_average_listed"],
                                          product.items["amazon_price"])
        recommended_bid ==
            IF grand_avg = Raise THEN Raise
            ELSE calculate_recommended_highest_bid(grand_avg, cfg)
        update_data ==
            [upc |-> product.upc,
             items |-> [grand_average_price |->
                            IF grand_avg = None THEN Num(0, 1) ELSE grand_avg,
                        recommended_highest_bid |->
                            IF recommended_bid = None THEN Num(0, 1)
                            ELSE recommended_bid]]
        failed ==
            \/ py_format_2f(grand_avg) = Raise
            \/ py_format_2f(recommended_bid) = Raise
    IN  IF grand_avg = Raise
        THEN [db |-> self, grand_avg |-> Raise, recommended_bid |-> Raise,
              error |-> TRUE, raised |-> FALSE]
        ELSE [db |-> add_or_update_product(self, update_data)[1],
              grand_avg |-> grand_avg, recommended_bid |-> recommended_bid,
              error |-> failed, raised |-> FALSE]

\* ProfitCalculator._calculate_product: the grand average of the product's
\* three observations and the bid for it are upserted under the product's UPC,
\* then logged with two decimals; every exception is caught and logged
_calculate_product(self, cfg, product) ==
    LET grand_avg ==
            calculate_grand_average_price(product.items["ebay_average_sold"],
                                          product.items["ebay_average_listed"],
                                          product.items["amazon_price"])
        recommended_bid ==
            IF grand_avg = Raise THEN Raise
            ELSE calculate_recommended_highest_bid(grand_avg, cfg)
        update_data ==
            [upc |-> product.upc,
             items |-> [grand_average_price |-> grand_avg,
                        recommended_highest_bid |-> recommended_bid]]
        failed ==
            \/ py_format_2f(grand_avg) = Raise
            \/ py_format_2f(recommended_bid) = Raise
    IN  IF grand_avg = Raise
        THEN [db |-> self, grand_avg |-> Raise, recommended_bid |-> Raise,
              error |-> TRUE, raised |-> FALSE]
        ELSE [db |-> add_or_update_product(self, update_data)[1],
              grand_avg |-> grand_avg, recommended_bid |-> recommended_bid,
              error |-> failed, raised |-> FALSE]

\* no calculate() is running
NoRun ==
    [pc |-> "idle", batch |-> FALSE, found |-> {}, todo |-> <<>>,
     processed |-> <<>>, errors |-> {}, caught |-> FALSE,
     grand_avg |-> None, recommended_bid |-> None]

(***************************************************************************)
(* Concurrent calls of the fee-driven functions on one configuration.      *)
(***************************************************************************)
Threads == {"t1", "t2"}

NoCall ==
    [pc |-> "idle", fn |-> "", price |-> None, bid |-> None,
     got |-> [k \in {} |-> None], ret |-> None]

NoMemo == [op |-> "none", args |-> NoArgs, ret |-> None]

Init ==
    /\ config = Config_init
    /\ op = "idle"
    /\ args = NoArgs
    /\ ret = None
    /\ memo = NoMemo
    /\ calls = [t \in Threads |-> NoCall]
    /\ db = Database_open
    /\ run = NoRun

\* the caller takes the result
Return ==
    /\ op # "idle"
    /\ op' = "idle"
    /\ args' = NoArgs
    /\ ret' = None
    /\ UNCHANGED <<config, memo, calls, db, run>>

GrandAverage ==
    /\ op = "idle"
    /\ \E a \in ObsVals, b \in ObsVals, c \in ObsVals :
        /\ op' = "grand_avg"
        /\ args' = [NoArgs EXCEPT !.obs = <<a, b, c>>]
        /\ ret' = calculate_grand_average_price(a, b, c)
        /\ UNCHANGED <<config, memo, calls, db, run>>

PcGrandAverage ==
    /\ op = "idle"
    /\ \E a \in ObsVals, b \in ObsVals, c \in ObsVals :
        /\ op' = "pc_grand_avg"
        /\ args' = [NoArgs EXCEPT !.obs = <<a, b, c>>]
        /\ ret' = pc_calculate_grand_average_price(a, b, c)
        /\ UNCHANGED <<config, memo, calls, db, run>>

\* main, command config --set key value; the model explores the
\* configurations that differ from the defaults in at most MaxChanged settings
ConfigSet ==
    /\ op = "idle"
    /\ \E key \in SetKeys, value \in SetVals :
        LET r == Config_set(config, key, value)
        IN  /\ Cardinality(ChangedKeys(r[1])) <= MaxChanged
            /\ config' = r[1]
            /\ op' = "config_set"
            /\ args' = [NoArgs EXCEPT !.key = key, !.value = value]
            /\ ret' = py_bool(r[2])
            /\ UNCHANGED <<memo, calls, db, run>>

\* variant: the call stores the minimum margin back as a percentage
RecommendedBid_writes_config ==
    /\ op = "idle"
    /\ \E price \in PriceVals :
        /\ op' = "bid"
        /\ args' = [NoArgs EXCEPT !.price = price]
        /\ ret' = calculate_recommended_highest_bid(price, config)
        /\ config' = Config_set(config, "lowest_profit_margin",
                          py_mul(Config_get(config, "lowest_profit_margin"),
                                 Num(100, 1)))[1]
        /\ UNCHANGED <<memo, calls, db, run>>

RecommendedBid ==
    /\ op = "idle"
    /\ \E price \in PriceVals :
        /\ op' = "bid"
        /\ args' = [NoArgs EXCEPT !.price = price]
        /\ ret' = calculate_recommended_highest_bid(price, config)
        /\ UNCHANGED <<config, memo, calls, db, run>>

PcRecommendedBid ==
    /\ op = "idle"
    /\ \E price \in PriceVals, mbp \in PercentVals :
        /\ op' = "pc_bid"
        /\ args' = [NoArgs EXCEPT !.price = price, !.mbp = mbp]
        /\ ret' = pc_calculate_recommended_highest_bid(price, WithPercent(config, mbp))
        /\ UNCHANGED <<config, memo, calls, db, run>>

ProfitMargin ==
    /\ op = "idle"
    /\ \E price \in PriceVals, bid \in BidVals :
        /\ op' = "margin"
        /\ args' = [NoArgs EXCEPT !.price = price, !.bid = bid]
        /\ ret' = calculate_current_profit_margin(bid, price, config)
        /\ UNCHANGED <<config, memo, calls, db, run>>

\* the bid just recommended for a price is used as the current bid
ProfitMarginAtRecommendedBid ==
    /\ op = "bid"
    /\ IsNum(ret)
    /\ op' = "margin"
    /\ args' = [args EXCEPT !.bid = ret, !.fed = TRUE]
    /\ ret' = calculate_current_profit_margin(ret, args.price, config)
    /\ UNCHANGED <<config, memo, calls, db, run>>

PcProfitMargin ==
    /\ op = "idle"
    /\ \E price \in PriceVals, bid \in BidVals :
        /\ op' = "pc_margin"
        /\ args' = [NoArgs EXCEPT !.price = price, !.bid = bid]
        /\ ret' = pc_calculate_current_profit_margin(bid, price, config)
        /\ UNCHANGED <<config, memo, calls, db, run>>

\* a configuration object whose settings lack one key (the calculators take
\* any object with a get method as config)
Without(cfg, key) ==
    [settings |-> [k \in (DOMAIN cfg.settings) \ {key} |-> cfg.settings[k]]]

\* the six settings calculate_current_profit_margin reads
MarginKeys == SettingKeys \ {"lowest_profit_margin"}

RecommendedBidMissingKey ==
    /\ op = "idle"
    /\ \E price \in PriceVals, key \in SettingKeys :
        /\ op' = "bid_missing"
        /\ args' = [NoArgs EXCEPT !.price = price, !.key = key]
        /\ ret' = calculate_recommended_highest_bid(price, Without(config, key))
        /\ UNCHANGED <<config, memo, calls, db, run>>

ProfitMarginMissingKey ==
    /\ op = "idle"
    /\ \E price \in PriceVals, bid \in BidVals, key \in SettingKeys :
        /\ op' = "margin_missing"
        /\ args' = [NoArgs EXCEPT !.price = price, !.bid = bid, !.key = key]
        /\ ret' = calculate_current_profit_margin(bid, price, Without(config, key))
        /\ UNCHANGED <<config, memo, calls, db, run>>

\* the calls of the three engine functions, in either implementation
EngineOps == {"grand_avg", "pc_grand_avg", "bid", "pc_bid", "margin", "pc_margin"}

\* the caller takes the result and keeps the call for later comparison
Remember ==
    /\ op \in EngineOps
    /\ memo' = [op |-> op, args |-> args, ret |-> ret]
    /\ op' = "idle"
    /\ args' = NoArgs
    /\ ret' = None
    /\ UNCHANGED <<config, calls, db, run>>

\* the simple-cap bid just recommended for a price is used as the current bid
PcProfitMarginAtRecommendedBid ==
    /\ op = "pc_bid"
    /\ IsNum(ret)
    /\ op' = "pc_margin"
    /\ args' = [args EXCEPT !.bid = ret, !.fed = TRUE]
    /\ ret' = pc_calculate_current_profit_margin(ret, args.price, WithPercent(config, args.mbp))
    /\ UNCHANGED <<config, memo, calls, db, run>>

NextAgg == GrandAverage \/ PcGrandAverage \/ Return

SpecAgg == Init /\ [][NextAgg]_vars

Next ==
    \/ ConfigSet
    \/ RecommendedBid
    \/ PcRecommendedBid
    \/ ProfitMargin
    \/ ProfitMarginAtRecommendedBid
    \/ PcProfitMargin
    \/ PcProfitMarginAtRecommendedBid
    \/ Return

Spec == Init /\ [][Next]_vars
(***************************************************************************)
(* Properties.                                                             *)
(***************************************************************************)
Setting(key) == config.settings[key]

RateKeys ==
    {"texas_sales_tax", "auction_buyer_premium", "ebay_listing_fee",
     "promote_listing_fee", "lowest_profit_margin"}

\* every rate setting lies in [0, 1)
RatesInUnitInterval ==
    \A key \in RateKeys : Setting(key).n >= 0 /\ Setting(key).n < Setting(key).d

\* 1 + auction_buyer_premium + texas_sales_tax
FeeDenominator ==
    py_add(Num(1, 1), py_add(Setting("auction_buyer_premium"), Setting("texas_sales_tax")))

IsPositive(x) == IsNum(x) /\ x.n > 0

\* the present observations of the call, their number and their sum
Present == {i \in 1..3 : args.obs[i].k # "None"}

PresentValue(i) == IF i \in Present THEN args.obs[i] ELSE Num(0, 1)

PresentSum == py_add(PresentValue(1), py_add(PresentValue(2), PresentValue(3)))

\* r is the sum of the present observations over their number
IsMeanOfPresent(r) ==
    /\ IsNum(r)
    /\ py_mul(r, Num(Cardinality(Present), 1)) = PresentSum

\* C1: feeding the fee-driven recommended bid back as the current bid gives a
\* margin of exactly lowest_profit_margin x 100, for every price > 0 and every
\* configuration with a non-zero denominator.
C1_RoundTrip ==
    (op = "margin" /\ args.fed /\ IsPositive(args.price) /\ FeeDenominator # Num(0, 1))
        => ret = py_mul(Setting("lowest_profit_margin"), Num(100, 1))

C1_Witness ==
    /\ op = "margin" /\ args.fed /\ IsPositive(args.price)
    /\ config # Config_init
    /\ ret = py_mul(Setting("lowest_profit_margin"), Num(100, 1))

\* C2: with rates in [0, 1) and a price > 0, the margin at a bid b reaches
\* lowest_profit_margin x 100 exactly when b is at most the recommended bid.
C2_HighestBid ==
    (op = "margin" /\ IsPositive(args.price) /\ RatesInUnitInterval)
        => /\ IsNum(ret)
           /\ py_le(py_mul(Setting("lowest_profit_margin"), Num(100, 1)), ret)
                <=> py_le(args.bid, calculate_recommended_highest_bid(args.price, config))

C2_Witness ==
    /\ op = "margin" /\ ~args.fed /\ IsPositive(args.price) /\ RatesInUnitInterval
    /\ IsPositive(args.bid)
    /\ py_le(py_mul(Setting("lowest_profit_margin"), Num(100, 1)), ret)

\* C3: when at least one observation is present, calculate_grand_average_price
\* (either implementation) returns the sum of the present observations divided
\* by their number.
C3_MeanOfPresent ==
    (op \in {"grand_avg", "pc_grand_avg"} /\ Present # {}) => IsMeanOfPresent(ret)

\* C4: with all three observations None, calculate_grand_average_price of
\* either implementation returns None: no number, no exception.
C4_AllAbsent ==
    (op \in {"grand_avg", "pc_grand_avg"} /\ Present = {}) => ret = None

C4_Witness ==
    op = "pc_grand_avg" /\ args.obs = <<None, None, None>> /\ ret = None

\* C5: the fee-driven calculate_grand_average_price keeps a present 0: it
\* counts in the sum and in the divisor; {0} alone gives 0 and {0, 100} gives 50.
C5_ZeroKept ==
    (op = "grand_avg" /\ \E i \in 1..3 : args.obs[i] = Num(0, 1))
        => /\ IsMeanOfPresent(ret)
           /\ args.obs = <<Num(0, 1), None, None>> => ret = Num(0, 1)
           /\ args.obs = <<Num(0, 1), Num(100, 1), None>> => ret = Num(50, 1)

C5_Witness ==
    op = "grand_avg" /\ args.obs = <<Num(0, 1), Num(100, 1), None>> /\ ret = Num(50, 1)

\* C6: the simple-cap calculate_grand_average_price keeps a present 0: it
\* counts in the sum and in the divisor; {0} alone gives 0 and {0, 100} gives 50.
C6_PcZeroKept ==
    (op = "pc_grand_avg" /\ \E i \in 1..3 : args.obs[i] = Num(0, 1))
        => /\ IsMeanOfPresent(ret)
           /\ args.obs = <<Num(0, 1), None, None>> => ret = Num(0, 1)
           /\ args.obs = <<Num(0, 1), Num(100, 1), None>> => ret = Num(50, 1)

\* C7: the result of calculate_grand_average_price (either implementation) is
\* the same for every permutation of its three arguments.
C7_OrderIndependent ==
    /\ op = "grand_avg" =>
          \A p \in Permutations(1..3) :
              calculate_grand_average_price(
                  args.obs[p[1]], args.obs[p[2]], args.obs[p[3]]) = ret
    /\ op = "pc_grand_avg" =>
          \A p \in Permutations(1..3) :
              pc_calculate_grand_average_price(
                  args.obs[p[1]], args.obs[p[2]], args.obs[p[3]]) = ret

C7_Witness ==
    /\ op = "pc_grand_avg" /\ IsNum(ret)
    /\ Cardinality(Present) = 2
    /\ Cardinality({args.obs[i] : i \in 1..3}) = 3

\* C8: for a present price and a non-zero denominator the fee-driven bid r is
\* (price x (1 - listing - promote - margin) - seller fee - ship cost)
\*   / (1 + buyer premium + sales tax),
\* that is, r x denominator + seller fee + ship cost
\*            = price x (1 - (listing + promote + margin)).
C8_BidFormula ==
    (op = "bid" /\ IsNum(args.price) /\ FeeDenominator # Num(0, 1))
        => /\ IsNum(ret)
           /\ py_add(py_mul(ret, FeeDenominator),
                     py_add(Setting("ebay_seller_fee"), Setting("ship_to_me_cost")))
                = py_mul(args.price,
                         py_sub(Num(1, 1),
                                py_add(Setting("ebay_listing_fee"),
                                       py_add(Setting("promote_listing_fee"),
                                              Setting("lowest_profit_margin")))))

C8_Witness ==
    /\ op = "bid" /\ IsPositive(args.price) /\ IsPositive(ret)
    /\ Setting("texas_sales_tax") # Config_init.settings["texas_sales_tax"]
    /\ Setting("ship_to_me_cost") # Config_init.settings["ship_to_me_cost"]

C10_AbsentPrice ==
    (op \in {"bid", "pc_bid"} /\ args.price = None) => ret = None

C10_Witness ==
    /\ op = "pc_bid" /\ args.price = None /\ args.mbp # Missing /\ ret = None
    /\ config # Config_init

\* C11: in both variants calculate_current_profit_margin returns None when
\* the price is None or exactly 0, for every bid and configuration (no
\* exception, no number).
C11_MarginAbsentOrZeroPrice ==
    (op \in {"margin", "pc_margin"} /\ (args.price = None \/ args.price = Num(0, 1)))
        => ret = None

C11_Witness ==
    /\ op = "pc_margin" /\ args.price = Num(0, 1) /\ IsPositive(args.bid)
    /\ config # Config_init /\ ret = None

\* C12: for a present non-zero price the fee-driven margin m is
\* 100 x ((price x (1 - listing - promote) - seller fee)
\*        - (bid x (1 + premium + tax) + ship cost)) / price,
\* that is, m x price = 100 x (revenue - cost).
C12_MarginFormula ==
    (op = "margin" /\ IsNum(args.price) /\ args.price # Num(0, 1))
        => /\ IsNum(ret)
           /\ py_mul(ret, args.price)
                = py_mul(Num(100, 1),
                    py_sub(
                      py_sub(py_mul(args.price,
                                    py_sub(Num(1, 1),
                                           py_add(Setting("ebay_listing_fee"),
                                                  Setting("promote_listing_fee")))),
                             Setting("ebay_seller_fee")),
                      py_add(py_mul(args.bid, FeeDenominator),
                             Setting("ship_to_me_cost"))))

C12_Witness ==
    /\ op = "margin" /\ ~args.fed /\ IsPositive(args.price) /\ IsPositive(args.bid)
    /\ IsNum(ret) /\ ret.n < 0
    /\ Setting("ebay_seller_fee") # Config_init.settings["ebay_seller_fee"]

\* the margin of the call in progress is strictly below the margin at every
\* lower bid b1, the price and the fees being those of the call
BelowMarginAtLowerBids ==
    \A b1 \in BidVals :
        py_lt(b1, args.bid) =>
            LET m1 == IF op = "margin"
                      THEN calculate_current_profit_margin(b1, args.price, config)
                      ELSE pc_calculate_current_profit_margin(b1, args.price, config)
            IN  IsNum(m1) /\ IsNum(ret) /\ py_lt(ret, m1)

\* C13 as stated: for fixed fees and a fixed present non-zero price, the margin
\* is strictly decreasing in the current bid, in both variants.
C13_StrictlyDecreasing ==
    (op \in {"margin", "pc_margin"} /\ IsNum(args.price) /\ args.price # Num(0, 1))
        => BelowMarginAtLowerBids

\* C13 (amended): for fixed fees and a fixed price > 0, the margin is strictly
\* decreasing in the current bid in the simple-cap variant, and in the
\* fee-driven variant when 1 + auction_buyer_premium + texas_sales_tax > 0.
C13_StrictlyDecreasingPositive ==
    /\ (op = "pc_margin" /\ IsPositive(args.price)) => BelowMarginAtLowerBids
    /\ (op = "margin" /\ IsPositive(args.price) /\ IsPositive(FeeDenominator))
            => BelowMarginAtLowerBids

C13_Witness ==
    /\ op = "margin" /\ IsPositive(args.price) /\ IsPositive(FeeDenominator)
    /\ py_add(Setting("auction_buyer_premium"), Setting("texas_sales_tax")) = Num(0, 1)
    /\ args.bid = Num(50, 1)
    /\ IsNum(ret)
    /\ py_lt(ret, calculate_current_profit_margin(Num(25, 1), args.price, config))

\* C14: simple-cap variant: for every price > 0 and every max_bid_percent
\* (above 100 and negative ones too) the returned bid is at most the price.
C14_Cap ==
    (op = "pc_bid" /\ IsPositive(args.price) /\ args.mbp # Missing)
        => IsNum(ret) /\ py_le(ret, args.price)

C14_Witness ==
    /\ op = "pc_bid" /\ IsPositive(args.price)
    /\ IsNum(args.mbp) /\ py_lt(Num(100, 1), args.mbp)
    /\ ret = args.price

\* price x max_bid_percent / 100
PercentOfPrice == py_div(py_mul(args.price, args.mbp), Num(100, 1))

\* C15: simple-cap variant: for a present price and a configuration that has
\* max_bid_percent, the bid is min(price x max_bid_percent / 100, price): it
\* is one of the two and at most both.
C15_CapFormula ==
    (op = "pc_bid" /\ IsNum(args.price) /\ IsNum(args.mbp))
        => /\ IsNum(ret)
           /\ ret \in {PercentOfPrice, args.price}
           /\ py_le(ret, PercentOfPrice)
           /\ py_le(ret, args.price)

\* C16: simple-cap variant: for a present non-zero price the margin m is
\* 100 x (price - bid) / price, that is m x price = 100 x (price - bid),
\* whatever the fee settings (the default settings give the same margin).
C16_SimpleMargin ==
    (op = "pc_margin" /\ IsNum(args.price) /\ args.price # Num(0, 1))
        => /\ IsNum(ret)
           /\ py_mul(ret, args.price)
                = py_mul(Num(100, 1), py_sub(args.price, args.bid))
           /\ ret = pc_calculate_current_profit_margin(args.bid, args.price, Config_init)

C16_Witness ==
    /\ op = "pc_margin" /\ IsPositive(args.price) /\ IsPositive(args.bid)
    /\ Setting("auction_buyer_premium") # Config_init.settings["auction_buyer_premium"]
    /\ IsNum(ret)

(***************************************************************************)
(* Calls with a configuration that lacks a key.                            *)
(***************************************************************************)
NextKeys ==
    \/ ConfigSet
    \/ RecommendedBidMissingKey
    \/ ProfitMarginMissingKey
    \/ PcRecommendedBid
    \/ Return

SpecKeys == Init /\ [][NextKeys]_vars

\* C17: when a fee parameter an operation needs is missing from the
\* configuration (any of the seven keys for the fee-driven bid, any of the six
\* keys of the fee-driven margin, max_bid_percent for the simple-cap bid), the
\* operation returns None for every present price and raises nothing.
C17_MissingKey ==
    /\ (op = "bid_missing" /\ IsNum(args.price)) => ret = None
    /\ (op = "margin_missing" /\ IsNum(args.price) /\ args.key \in MarginKeys)
            => ret = None
    /\ (op = "pc_bid" /\ IsNum(args.price) /\ args.mbp = Missing) => ret = None

C17_Witness ==
    /\ op = "margin_missing" /\ IsPositive(args.price) /\ IsPositive(args.bid)
    /\ args.key = "ship_to_me_cost" /\ config # Config_init
    /\ ret = None

\* C18: calculate_recommended_highest_bid (either variant) never returns a
\* negative number; a negative result of the formula is reported as None.
C18_NeverNegative ==
    op \in {"bid", "pc_bid"} => ~(IsNum(ret) /\ ret.n < 0)

\* the fees of the end-to-end example
ExampleFees ==
    [settings |->
        [ebay_listing_fee      |-> Num(13, 100),
         promote_listing_fee   |-> Num(2, 100),
         lowest_profit_margin  |-> Num(35, 100),
         ebay_seller_fee       |-> Num(40, 100),
         ship_to_me_cost       |-> Num(0, 1),
         auction_buyer_premium |-> Num(15, 100),
         texas_sales_tax       |-> Num(825, 10000)]]

\* C19: the default settings are the fees of the example; with them and a
\* price of 150 the recommended bid is 74.60 / 1.2325 (60.527...) and the
\* margin at that bid is 35.
C19_Example ==
    /\ Config_init = ExampleFees
    /\ (op = "bid" /\ config = ExampleFees /\ args.price = Num(150, 1))
            => /\ ret = py_div(Num(7460, 100), Num(12325, 10000))
               /\ 60527 * ret.d <= 1000 * ret.n
               /\ 1000 * ret.n < 60528 * ret.d
    /\ (op = "margin" /\ args.fed /\ config = ExampleFees /\ args.price = Num(150, 1))
            => ret = Num(35, 1)

C19_Witness ==
    /\ op = "margin" /\ args.fed /\ config = ExampleFees
    /\ args.price = Num(150, 1)
    /\ args.bid = py_div(Num(7460, 100), Num(12325, 10000))
    /\ ret = Num(35, 1)

(***************************************************************************)
(* The engine functions called again and again on one Config object, one   *)
(* earlier call being kept.                                                *)
(***************************************************************************)
NextPure ==
    \/ GrandAverage
    \/ PcGrandAverage
    \/ RecommendedBid
    \/ PcRecommendedBid
    \/ ProfitMargin
    \/ PcProfitMargin
    \/ Remember
    \/ Return

SpecPure == Init /\ [][NextPure]_vars

\* the inputs of a call: observations, price, bid, max_bid_percent
Inputs(a) == <<a.obs, a.price, a.bid, a.mbp>>

FlatKeys == {"ebay_seller_fee", "ship_to_me_cost"}

\* C21: after any sequence of Config.set calls every rate setting lies in
\* [0, 1), every flat fee is non-negative and the bid denominator
\* 1 + auction_buyer_premium + texas_sales_tax is not 0.
C21_ValidConfiguration ==
    /\ RatesInUnitInterval
    /\ \A key \in FlatKeys : Setting(key).n >= 0
    /\ FeeDenominator # Num(0, 1)

HasNegative == \E i \in 1..3 : IsNum(args.obs[i]) /\ args.obs[i].n < 0

HasZero == \E i \in 1..3 : args.obs[i] = Num(0, 1)

C26_ConfigSetFrame ==
    [][/\ DOMAIN config'.settings = SettingKeys
       /\ op' = "config_set" =>
            IF args'.key \in SettingKeys
            THEN /\ ret' = py_bool(TRUE)
                 /\ Config_get(config', args'.key) = args'.value
                 /\ \A k \in SettingKeys \ {args'.key} :
                        config'.settings[k] = config.settings[k]
            ELSE /\ ret' = py_bool(FALSE)
                 /\ config' = config]_vars

C26_Witness ==
    /\ op = "config_set" /\ args.key = "max_bid_percent" /\ ret = py_bool(FALSE)
    /\ config # Config_init

\* C29: on every triple in which no present observation is 0 the two
\* implementations of calculate_grand_average_price return the same result.
C29_ImplementationsAgree ==
    /\ (op = "grand_avg" /\ ~HasZero)
            => ret = pc_calculate_grand_average_price(args.obs[1], args.obs[2], args.obs[3])
    /\ (op = "pc_grand_avg" /\ ~HasZero)
            => ret = calculate_grand_average_price(args.obs[1], args.obs[2], args.obs[3])

C29_Witness ==
    /\ op = "grand_avg" /\ ~HasZero /\ Cardinality(Present) = 2 /\ IsNum(ret)
    /\ ret = pc_calculate_grand_average_price(args.obs[1], args.obs[2], args.obs[3])

\* C30: simple-cap variant: for a price > 0 and every max_bid_percent, the
\* margin at the recommended bid is >= 0, and it is 100 - max_bid_percent when
\* max_bid_percent <= 100.
C30_SimpleRoundTrip ==
    (op = "pc_margin" /\ args.fed /\ IsPositive(args.price) /\ IsNum(args.mbp))
        => /\ IsNum(ret)
           /\ ret.n >= 0
           /\ py_le(args.mbp, Num(100, 1)) => ret = py_sub(Num(100, 1), args.mbp)

C30_Witness ==
    /\ op = "pc_margin" /\ args.fed /\ IsPositive(args.price)
    /\ args.mbp = Num(50, 1) /\ ret = Num(50, 1)

(***************************************************************************)
(* Concurrent calls: a call reads the settings one Config.get at a time    *)
(* into its own locals and computes from them.                             *)
(***************************************************************************)
\* the settings a call reads, in the order of its Config.get calls; the early
\* return comes before the first of them
ReadOrder(fn, price) ==
    IF fn = "bid"
    THEN IF price.k = "None" THEN <<>>
         ELSE <<"ebay_listing_fee", "promote_listing_fee", "lowest_profit_margin",
                "ebay_seller_fee", "ship_to_me_cost", "auction_buyer_premium",
                "texas_sales_tax">>
    ELSE IF price.k = "None" \/ price = Num(0, 1) THEN <<>>
         ELSE <<"ebay_listing_fee", "promote_listing_fee", "ebay_seller_fee",
                "auction_buyer_premium", "texas_sales_tax", "ship_to_me_cost">>

\* variant: the price is kept on the calculator object, which the calls share
CallStart_on_self(t) ==
    /\ calls[t].pc = "idle"
    /\ \E fn \in {"bid", "margin"}, price \in PriceVals, bid \in BidVals \cup {None} :
        /\ (fn = "bid") <=> (bid = None)
        /\ calls' = [u \in Threads |->
                        IF u = t
                        THEN [pc |-> "running", fn |-> fn, price |-> price,
                              bid |-> bid, got |-> [k \in {} |-> None], ret |-> None]
                        ELSE [calls[u] EXCEPT !.price = price]]
    /\ UNCHANGED <<config, op, args, ret, memo, db, run>>

\* a thread calls calculate_recommended_highest_bid or
\* calculate_current_profit_margin with the shared configuration
CallStart(t) ==
    /\ calls[t].pc = "idle"
    /\ \E fn \in {"bid", "margin"}, price \in PriceVals, bid \in BidVals \cup {None} :
        /\ (fn = "bid") <=> (bid = None)
        /\ calls' = [calls EXCEPT ![t] =
                        [pc |-> "running", fn |-> fn, price |-> price,
                         bid |-> bid, got |-> [k \in {} |-> None], ret |-> None]]
    /\ UNCHANGED <<config, op, args, ret, memo, db, run>>

\* the next config.get of the call
CallGet(t) ==
    LET c     == calls[t]
        order == ReadOrder(c.fn, c.price)
        i     == Cardinality(DOMAIN c.got) + 1
    IN  /\ c.pc = "running"
        /\ i <= Len(order)
        /\ calls' = [calls EXCEPT ![t].got =
                        [k \in (DOMAIN c.got) \cup {order[i]} |->
                            IF k = order[i] THEN Config_get(config, k) ELSE c.got[k]]]
        /\ UNCHANGED <<config, op, args, ret, memo, db, run>>

\* the arithmetic of the call, on the values it has read
CallCompute(t) ==
    LET c      == calls[t]
        locals == [settings |-> c.got]
    IN  /\ c.pc = "running"
        /\ Cardinality(DOMAIN c.got) = Len(ReadOrder(c.fn, c.price))
        /\ calls' = [calls EXCEPT ![t].pc = "done",
                                  ![t].ret =
                        IF c.fn = "bid"
                        THEN calculate_recommended_highest_bid(c.price, locals)
                        ELSE calculate_current_profit_margin(c.bid, c.price, locals)]
        /\ UNCHANGED <<config, op, args, ret, memo, db, run>>

CallReturn(t) ==
    /\ calls[t].pc = "done"
    /\ calls' = [calls EXCEPT ![t] = NoCall]
    /\ UNCHANGED <<config, op, args, ret, memo, db, run>>

NextConc ==
    \/ \E t \in Threads : CallStart(t)
    \/ \E t \in Threads : CallGet(t)
    \/ \E t \in Threads : CallCompute(t)
    \/ \E t \in Threads : CallReturn(t)

SpecConc == Init /\ [][NextConc]_vars

\* what the call returns when nothing else runs
AloneResult(c) ==
    IF c.fn = "bid"
    THEN calculate_recommended_highest_bid(c.price, config)
    ELSE calculate_current_profit_margin(c.bid, c.price, config)

\* C23: concurrent calls that share one configuration which no one mutates:
\* under every interleaving of their steps a call returns what it returns
\* alone, a step of one call leaves the configuration and the other call's
\* state as they are.
C23_NoInterference ==
    [][/\ config' = config
       /\ \A t \in Threads :
            /\ calls'[t].pc = "done" => calls'[t].ret = AloneResult(calls'[t])
            /\ calls'[t] # calls[t] =>
                    \A u \in Threads \ {t} : calls'[u] = calls[u]]_vars

C23_Witness ==
    /\ calls["t1"].pc = "done" /\ calls["t1"].fn = "bid"
    /\ calls["t1"].price = Num(100, 1) /\ IsNum(calls["t1"].ret)
    /\ calls["t2"].pc = "running" /\ calls["t2"].fn = "margin"
    /\ calls["t2"].price = Num(50, 1)
    /\ Cardinality(DOMAIN calls["t2"].got) = 3

(***************************************************************************)
(* The products table under upserts and calculate().                       *)
(***************************************************************************)
\* add_or_update_product is called, on an open connection, with a UPC and one
\* more key, which is not one of the two that _calculate_product writes
Upsert ==
    /\ op = "idle"
    /\ run.pc = "idle"
    /\ db.conn = "open"
    /\ \E upc \in UPCs, key \in Columns \ Derived :
      \E value \in ValuesOf(key) :
        LET r == add_or_update_product(db, [upc |-> upc, items |-> (key :> value)])
        IN  /\ Filled(r[1]) <= MaxFilled
            /\ db' = r[1]
            /\ op' = "upsert"
            /\ args' = [NoArgs EXCEPT !.key = key, !.value = value]
            /\ ret' = py_bool(r[2])
    /\ UNCHANGED <<config, memo, calls, run>>

\* a new Database object connects to the file
DatabaseOpen ==
    /\ op = "idle"
    /\ run.pc = "idle"
    /\ db.conn = "closed"
    /\ db' = [db EXCEPT !.conn = "open"]
    /\ UNCHANGED <<config, op, args, ret, memo, calls, run>>

\* calculate(upc): the product of the UPC, or every product when upc is falsy
Calculate ==
    /\ op = "idle"
    /\ run.pc = "idle"
    /\ \E upc \in UPCs \cup {""} :
        LET found == IF upc # "" THEN get_product_by_upc(db, upc)
                     ELSE get_all_products(db)
        IN  \E todo \in Orders(found) :
                run' = [NoRun EXCEPT !.pc = "loop", !.batch = (upc = ""),
                                     !.found = {p.upc : p \in found},
                                     !.todo = todo]
    /\ UNCHANGED <<config, op, args, ret, memo, calls, db>>

\* calculate: _calculate_product of the next product; an exception that leaves
\* it ends the loop in calculate's except clause
CalculateProduct ==
    /\ run.pc = "loop"
    /\ run.todo # <<>>
    /\ LET product == Head(run.todo)
           r       == _calculate_product(db, config, product)
       IN  /\ db' = r.db
           /\ run' = [run EXCEPT
                        !.todo = IF r.raised THEN <<>> ELSE Tail(run.todo),
                        !.processed = Append(@, product.upc),
                        !.errors = IF r.error \/ r.raised
                                   THEN @ \cup {product.upc} ELSE @,
                        !.caught = r.raised,
                        !.grand_avg = r.grand_avg,
                        !.recommended_bid = r.recommended_bid]
    /\ UNCHANGED <<config, op, args, ret, memo, calls>>

\* calculate: finally: self.db.close()
CalculateClose ==
    /\ run.pc = "loop"
    /\ run.todo = <<>>
    /\ db' = Database_close(db)
    /\ run' = [run EXCEPT !.pc = "done"]
    /\ UNCHANGED <<config, op, args, ret, memo, calls>>

\* calculate has returned
CalculateReturn ==
    /\ run.pc = "done"
    /\ run' = NoRun
    /\ UNCHANGED <<config, op, args, ret, memo, calls, db>>

NextDb ==
    \/ Upsert
    \/ DatabaseOpen
    \/ Calculate
    \/ CalculateProduct
    \/ CalculateClose
    \/ CalculateReturn
    \/ Return

SpecDb == Init /\ [][NextDb]_vars

\* the step is a _calculate_product of the product at the head of the loop
CalculateProductStep == run.pc = "loop" /\ run.todo # <<>> /\ run' # run

Current == Head(run.todo)

Observations(row) ==
    <<row["ebay_average_sold"], row["ebay_average_listed"], row["amazon_price"]>>

NoObservation(row) == \A i \in 1..3 : Observations(row)[i] = None

\* the observations are numbers or absent, and one at least is a number
SomeObservation(row) ==
    /\ \A i \in 1..3 : Observations(row)[i] = None \/ IsNum(Observations(row)[i])
    /\ \E i \in 1..3 : IsNum(Observations(row)[i])

GrandAverageOf(row) ==
    calculate_grand_average_price(row["ebay_average_sold"],
                                  row["ebay_average_listed"], row["amazon_price"])

\* C24: _calculate_product of a product without a present observation
\* computes an absent grand average and an absent bid, and a number in the
\* product's grand_average_price or recommended_highest_bid afterwards is the
\* number that was there before.
C24_AbsencePropagates ==
    [][(CalculateProductStep /\ NoObservation(Current.items)) =>
            /\ run'.grand_avg = None
            /\ run'.recommended_bid = None
            /\ \A c \in Derived :
                    IsNum(db'.products[Current.upc][c]) =>
                        db'.products[Current.upc][c] = db.products[Current.upc][c]]_vars

C24_Witness ==
    /\ run.pc = "loop"
    /\ run.processed = <<"u1">>
    /\ NoObservation(db.products["u1"])
    /\ db.products["u1"]["name"] # None
    /\ run.grand_avg = None /\ run.recommended_bid = None
    /\ \A c \in Derived : db.products["u1"][c] = None

\* C25: after _calculate_product of a stored product with a present
\* observation (the configuration being the valid default one) the table
\* holds, under its UPC, the grand average of its three observations and the
\* bid for that average; its other columns and the other products are as
\* before.
C25_StoredResults ==
    [][(CalculateProductStep /\ SomeObservation(Current.items)) =>
            LET upc == Current.upc
                avg == GrandAverageOf(Current.items)
            IN  /\ DOMAIN db'.products = DOMAIN db.products
                /\ db'.products[upc]["grand_average_price"] = avg
                /\ db'.products[upc]["recommended_highest_bid"] =
                        calculate_recommended_highest_bid(avg, config)
                /\ \A c \in Columns \ Derived :
                        db'.products[upc][c] = db.products[upc][c]
                /\ \A u \in (DOMAIN db.products) \ {upc} :
                        db'.products[u] = db.products[u]]_vars

C25_Witness ==
    /\ run.pc = "done" /\ run.processed = <<"u1">> /\ run.errors = {}
    /\ "u2" \in DOMAIN db.products
    /\ db.products["u1"]["name"] = Text
    /\ db.products["u1"]["ebay_average_listed"] = Num(100, 1)
    /\ db.products["u1"]["grand_average_price"] = Num(100, 1)
    /\ db.products["u1"]["recommended_highest_bid"] =
            calculate_recommended_highest_bid(Num(100, 1), config)

C28_NeverNulled ==
    [][/\ \A u \in DOMAIN db.products :
            /\ u \in DOMAIN db'.products
            /\ \A c \in Columns :
                    db.products[u][c] # None => db'.products[u][c] # None
       /\ (op' = "upsert" /\ (args'.value = None \/ args'.key \notin product_fields)) =>
            \A u \in DOMAIN db.products : db'.products[u] = db.products[u]]_vars

C28_Witness ==
    /\ op = "upsert" /\ ret = py_bool(TRUE)
    /\ args.key = "amazon_price" /\ args.value = None
    /\ \A u \in UPCs :
            /\ u \in DOMAIN db.products
            /\ db.products[u]["amazon_price"] = Num(100, 1)
====
